---- MODULE Spec2Model ----
(***************************************************************************)
(* A model of the surreal-query package: the SurrealQuery builder          *)
(* (packages/surreal-query/src/surrealQuery.ts), the TableBuilder          *)
(* (packages/surreal-query/src/surrealTables.ts) and the validation of the *)
(* string-literal-typed schema builder.                                    *)
(*                                                                         *)
(* Text is modelled as a sequence of one-character strings, so that the    *)
(* character-level operations of the code (template literals, join, the    *)
(* regular expression of cleanFilters, trimEnd, JSON.stringify) are        *)
(* computed as the code computes them.                                     *)
(***************************************************************************)
EXTENDS Integers, Sequences, FiniteSets

(***************************************************************************)
(* Bounds of the model.                                                    *)
(***************************************************************************)
\* the longest filter list a builder accumulates in the model
MaxFilters == 3
\* the most index calls made on a table builder in the model
MaxIndexes == 2
\* the most generate calls made in a row in the model
MaxGenerates == 2

(***************************************************************************)
(* Literal text of the source.                                             *)
(***************************************************************************)
kSelectFrom == <<"S", "E", "L", "E", "C", "T", " ", "*", " ", "F", "R", "O", "M", " ">>
kWhere == <<" ", "W", "H", "E", "R", "E", " ">>
kOrderBy == <<" ", "O", "R", "D", "E", "R", " ", "B", "Y", " ">>
kLimit == <<" ", "L", "I", "M", "I", "T", " ">>
kCreate == <<"C", "R", "E", "A", "T", "E", " ">>
kContent == <<" ", "C", "O", "N", "T", "E", "N", "T", " ">>
kUpdate == <<"U", "P", "D", "A", "T", "E", " ">>
kDeleteFrom == <<"D", "E", "L", "E", "T", "E", " ", "F", "R", "O", "M", " ">>
kAND == <<"A", "N", "D">>
kOR == <<"O", "R">>
kSpace == <<" ">>
kQuote == <<"'">>
kNaN == <<"N", "a", "N">>
kUndefined == <<"u", "n", "d", "e", "f", "i", "n", "e", "d">>
kNull == <<"n", "u", "l", "l">>
opEq == <<"=">>
opGt == <<">">>
opLt == <<"<">>
opGe == <<">", "=">>
opLe == <<"<", "=">>
opNe == <<"!", "=">>

\* type FilterOperator
FilterOperator == {opEq, opGt, opLt, opGe, opLe, opNe}

\* the error messages thrown by the builder
ErrNone == "none"
ErrTable == "Table name cannot be empty"
ErrNamespace == "Namespace cannot be empty"
ErrDatabase == "Database name cannot be empty"
ErrFilterField == "Field for filtering cannot be empty"
ErrSortField == "Field for sorting cannot be empty"
ErrLimit == "Limit must be greater than zero"
ErrNsDb == "Namespace and Database must be provided before building a query"
ErrNoDataCreate == "No data provided for CREATE operation"
ErrNoDataUpdate == "No data provided for UPDATE operation"
ErrInvalidOperation == "Invalid operation"

(***************************************************************************)
(* JavaScript values: undefined, strings, numbers (integers and NaN) and   *)
(* plain objects (an ordered list of own properties).                      *)
(***************************************************************************)
Undefined == [t |-> "undefined", s |-> <<>>, n |-> 0, props |-> <<>>]
NaN == [t |-> "nan", s |-> <<>>, n |-> 0, props |-> <<>>]
Str(s) == [t |-> "str", s |-> s, n |-> 0, props |-> <<>>]
Num(n) == [t |-> "num", s |-> <<>>, n |-> n, props |-> <<>>]
Obj(props) == [t |-> "obj", s |-> <<>>, n |-> 0, props |-> props]
Prop(k, v) == [k |-> k, v |-> v]

\* ToBoolean: undefined, "", 0, NaN and false are falsy
Truthy(v) ==
  CASE v.t = "undefined" -> FALSE
    [] v.t = "nan" -> FALSE
    [] v.t = "str" -> Len(v.s) > 0
    [] v.t = "num" -> v.n # 0
    [] v.t = "bool" -> v.n # 0
    [] OTHER -> TRUE

\* the comparison count <= 0 of limit(): false for NaN
LeqZero(v) ==
  CASE v.t = "num" -> v.n <= 0
    [] OTHER -> FALSE

Digit(d) == <<"0", "1", "2", "3", "4", "5", "6", "7", "8", "9">>[d + 1]

RECURSIVE NatToString(_)
NatToString(n) ==
  IF n < 10 THEN <<Digit(n)>>
  ELSE NatToString(n \div 10) \o <<Digit(n % 10)>>

\* Number.prototype.toString for integers
NumberToString(n) ==
  IF n < 0 THEN <<"-">> \o NatToString(0 - n) ELSE NatToString(n)

\* String(v), the conversion of a template literal placeholder
StringOf(v) ==
  CASE v.t = "undefined" -> kUndefined
    [] v.t = "nan" -> kNaN
    [] v.t = "str" -> v.s
    [] v.t = "num" -> NumberToString(v.n)
    [] OTHER -> <<"[", "o", "b", "j", "e", "c", "t", " ", "O", "b", "j", "e", "c", "t", "]">>

RECURSIVE Join(_, _)
\* Array.prototype.join
Join(parts, sep) ==
  IF Len(parts) = 0 THEN <<>>
  ELSE IF Len(parts) = 1 THEN parts[1]
  ELSE parts[1] \o sep \o Join(Tail(parts), sep)

\* text ends with the text suffix
EndsWith(text, suffix) ==
  /\ Len(text) >= Len(suffix)
  /\ SubSeq(text, Len(text) - Len(suffix) + 1, Len(text)) = suffix

\* text starts with the text prefix
StartsWith(text, prefix) ==
  /\ Len(text) >= Len(prefix)
  /\ SubSeq(text, 1, Len(prefix)) = prefix

\* pat occurs in text
Contains(text, pat) ==
  \E i \in 1..(Len(text) - Len(pat) + 1) : SubSeq(text, i, i + Len(pat) - 1) = pat

RECURSIVE TrimEnd(_)
\* String.prototype.trimEnd
TrimEnd(text) ==
  IF Len(text) > 0 /\ text[Len(text)] = " "
  THEN TrimEnd(SubSeq(text, 1, Len(text) - 1))
  ELSE text

\* one character of a JSON string literal
JSONChar(c) ==
  IF c = "\"" THEN <<"\\", "\"">>
  ELSE IF c = "\\" THEN <<"\\", "\\">>
  ELSE <<c>>

\* JSON.stringify of a string
JSONQuote(s) ==
  <<"\"">> \o Join([i \in 1..Len(s) |-> JSONChar(s[i])], <<>>) \o <<"\"">>

\* mutant: numbers are serialised as strings
JSONScalar_quoted(v) ==
  CASE v.t = "str" -> JSONQuote(v.s)
    [] v.t = "num" -> JSONQuote(NumberToString(v.n))
    [] OTHER -> kNull

\* JSON.stringify of a property value that is not an object
JSONScalar(v) ==
  CASE v.t = "str" -> JSONQuote(v.s)
    [] v.t = "num" -> NumberToString(v.n)
    [] OTHER -> kNull

\* the own properties JSON.stringify serialises: those whose value is not undefined
RECURSIVE JSONMembers(_)
JSONMembers(props) ==
  IF Len(props) = 0 THEN <<>>
  ELSE IF props[1].v.t = "undefined" THEN JSONMembers(Tail(props))
  ELSE <<JSONQuote(props[1].k) \o <<":">> \o JSONScalar(props[1].v)>>
         \o JSONMembers(Tail(props))

\* JSON.stringify(data) for a flat object: compact, own properties in order
JSONstringify(v) ==
  IF v.t = "obj" THEN <<"{">> \o Join(JSONMembers(v.props), <<",">>) \o <<"}">>
  ELSE JSONScalar(v)

(***************************************************************************)
(* The SurrealQuery builder.  A builder is a record of the private fields  *)
(* of the class; every method is an operator from the builder and the      *)
(* arguments to an outcome [ok, err, q, query]: q is the builder after the *)
(* call (the builder before it when the method throws) and err the message *)
(* of the Error thrown.                                                    *)
(***************************************************************************)
Returns(q) == [ok |-> TRUE, err |-> ErrNone, q |-> q, query |-> <<>>]
Throws(q, err) == [ok |-> FALSE, err |-> err, q |-> q, query |-> <<>>]
ReturnsQuery(q, query) == [ok |-> TRUE, err |-> ErrNone, q |-> q, query |-> query]

\* the builder that does not exist: the constructor threw
NoBuilder ==
  [table |-> <<>>, filters |-> <<>>, sortField |-> Undefined, limitCount |-> Undefined,
   namespace |-> Undefined, db_name |-> Undefined, data |-> Undefined]

\* mutant: the table name is stored without being tested
constructor_unchecked(table, namespace, db_name) ==
  Returns([table |-> table.s, filters |-> <<>>, sortField |-> Undefined,
           limitCount |-> Undefined, namespace |-> namespace,
           db_name |-> db_name, data |-> Undefined])

\* new SurrealQuery(table, { namespace, db_name })
constructor(table, namespace, db_name) ==
  IF ~Truthy(table) THEN Throws(NoBuilder, ErrTable)
  ELSE Returns([table |-> table.s, filters |-> <<>>, sortField |-> Undefined,
                limitCount |-> Undefined, namespace |-> namespace,
                db_name |-> db_name, data |-> Undefined])

\* mutant: the namespace is assigned before the database name is tested
setNamespaceAndDb_partial(q, namespace, db_name) ==
  IF ~Truthy(namespace) THEN Throws(q, ErrNamespace)
  ELSE IF ~Truthy(db_name) THEN Throws([q EXCEPT !.namespace = namespace], ErrDatabase)
  ELSE Returns([q EXCEPT !.namespace = namespace, !.db_name = db_name])

setNamespaceAndDb(q, namespace, db_name) ==
  IF ~Truthy(namespace) THEN Throws(q, ErrNamespace)
  ELSE IF ~Truthy(db_name) THEN Throws(q, ErrDatabase)
  ELSE Returns([q EXCEPT !.namespace = namespace, !.db_name = db_name])

setDb(q, db_name) ==
  IF ~Truthy(db_name) THEN Throws(q, ErrDatabase)
  ELSE Returns([q EXCEPT !.db_name = db_name])

\* mutant: selecting a namespace forgets the database selected before
setNamespace_forgetsDb(q, namespace) ==
  IF ~Truthy(namespace) THEN Throws(q, ErrNamespace)
  ELSE Returns([q EXCEPT !.namespace = namespace, !.db_name = Undefined])

setNamespace(q, namespace) ==
  IF ~Truthy(namespace) THEN Throws(q, ErrNamespace)
  ELSE Returns([q EXCEPT !.namespace = namespace])

\* the default of the parameter operator of filter
DefaultOperator == Str(opEq)

\* mutant: OR is recorded when logicalOperator is omitted
DefaultLogicalOperator_OR == kOR

\* the conjunction recorded when logicalOperator is omitted
DefaultLogicalOperator == kAND

\* mutant: the value is interpolated without quotes
FilterClause_unquoted(field, value, operator, logicalOperator) ==
  StringOf(field) \o kSpace \o StringOf(operator) \o kSpace
    \o StringOf(value) \o kSpace \o logicalOperator

\* `${String(field)} ${operator} '${value}' ${logicalOperator}`
FilterClause(field, value, operator, logicalOperator) ==
  StringOf(field) \o kSpace \o StringOf(operator) \o kSpace
    \o kQuote \o StringOf(value) \o kQuote \o kSpace \o logicalOperator

filter(q, field, value, operator, logicalOperator) ==
  LET op == IF operator.t = "undefined" THEN DefaultOperator ELSE operator IN
  IF ~Truthy(field) THEN Throws(q, ErrFilterField)
  ELSE IF Truthy(logicalOperator)
  THEN Returns([q EXCEPT !.filters =
                  Append(@, FilterClause(field, value, op, StringOf(logicalOperator)))])
  ELSE Returns([q EXCEPT !.filters =
                  Append(@, FilterClause(field, value, op, DefaultLogicalOperator))])

\* mutant: a sort field already set is kept
sort_firstWins(q, field) ==
  IF ~Truthy(field) THEN Throws(q, ErrSortField)
  ELSE IF Truthy(q.sortField) THEN Returns(q)
  ELSE Returns([q EXCEPT !.sortField = Str(StringOf(field))])

sort(q, field) ==
  IF ~Truthy(field) THEN Throws(q, ErrSortField)
  ELSE Returns([q EXCEPT !.sortField = Str(StringOf(field))])

limit(q, count) ==
  IF LeqZero(count) THEN Throws(q, ErrLimit)
  ELSE Returns([q EXCEPT !.limitCount = count])

setData(q, data) == Returns([q EXCEPT !.data = data])

\* mutant: the regular expression /(AND)$/
MatchTrailingConjunction_onlyAND(text) ==
  IF EndsWith(text, kAND) THEN kAND ELSE <<>>

\* the regular expression /(AND|OR)$/: the text matched, <<>> when none
MatchTrailingConjunction(text) ==
  IF EndsWith(text, kAND) THEN kAND
  ELSE IF EndsWith(text, kOR) THEN kOR
  ELSE <<>>

cleanFilters(text) ==
  LET match == MatchTrailingConjunction(text) IN
  IF Len(match) > 0
  THEN TrimEnd(SubSeq(text, 1, Len(text) - Len(match)))
  ELSE text

\* mutant: only the namespace is tested
NamespaceOrDbMissing_namespaceOnly(q) == ~Truthy(q.namespace)

\* the test of buildQuery and getQueryPayload on namespace and database
NamespaceOrDbMissing(q) == ~Truthy(q.namespace) \/ ~Truthy(q.db_name)

\* the WHERE segment of SELECT, UPDATE and DELETE
WhereSegment(q) ==
  IF Len(q.filters) > 0
  THEN cleanFilters(kWhere \o Join(q.filters, kSpace))
  ELSE <<>>

\* the ORDER BY segment of SELECT
OrderBySegment(q) ==
  IF Truthy(q.sortField) THEN kOrderBy \o StringOf(q.sortField) ELSE <<>>

\* the LIMIT segment of SELECT
LimitSegment(q) ==
  IF Truthy(q.limitCount) THEN kLimit \o StringOf(q.limitCount) ELSE <<>>

SelectQuery(q) ==
  ReturnsQuery(q, kSelectFrom \o q.table \o WhereSegment(q)
                    \o OrderBySegment(q) \o LimitSegment(q))

CreateQuery(q) ==
  IF ~Truthy(q.data) THEN Throws(q, ErrNoDataCreate)
  ELSE ReturnsQuery(q, kCreate \o q.table \o kContent \o JSONstringify(q.data))

\* mutant: UPDATE renders the LIMIT segment as SELECT does
UpdateQuery_limited(q) ==
  IF ~Truthy(q.data) THEN Throws(q, ErrNoDataUpdate)
  ELSE ReturnsQuery(q, kUpdate \o q.table \o kContent \o JSONstringify(q.data)
                         \o WhereSegment(q) \o LimitSegment(q))

UpdateQuery(q) ==
  IF ~Truthy(q.data) THEN Throws(q, ErrNoDataUpdate)
  ELSE ReturnsQuery(q, kUpdate \o q.table \o kContent \o JSONstringify(q.data)
                         \o WhereSegment(q))

DeleteQuery(q) ==
  ReturnsQuery(q, kDeleteFrom \o q.table \o WhereSegment(q))

\* mutant: a statement that was rendered takes the filters with it
buildQuery_consuming(q, operation) ==
  IF NamespaceOrDbMissing(q) THEN Throws(q, ErrNsDb)
  ELSE LET out == CASE operation = "SELECT" -> SelectQuery(q)
                    [] operation = "CREATE" -> CreateQuery(q)
                    [] operation = "UPDATE" -> UpdateQuery(q)
                    [] operation = "DELETE" -> DeleteQuery(q)
                    [] OTHER -> Throws(q, ErrInvalidOperation)
       IN IF out.ok THEN [out EXCEPT !.q = [q EXCEPT !.filters = <<>>]] ELSE out

buildQuery(q, operation) ==
  IF NamespaceOrDbMissing(q) THEN Throws(q, ErrNsDb)
  ELSE CASE operation = "SELECT" -> SelectQuery(q)
         [] operation = "CREATE" -> CreateQuery(q)
         [] operation = "UPDATE" -> UpdateQuery(q)
         [] operation = "DELETE" -> DeleteQuery(q)
         [] OTHER -> Throws(q, ErrInvalidOperation)

\* the record getQueryPayload returns
NoPayload == [namespace |-> Undefined, db_name |-> Undefined, query |-> <<>>]
\* mutant: namespace and db_name are exchanged
QueryPayload_swapped(q, query) ==
  [namespace |-> q.db_name, db_name |-> q.namespace, query |-> query]

QueryPayload(q, query) ==
  [namespace |-> q.namespace, db_name |-> q.db_name, query |-> query]

\* outcome [ok, err, q, payload]
getQueryPayload(q, operation) ==
  LET built == buildQuery(q, operation) IN
  IF ~built.ok THEN [ok |-> FALSE, err |-> built.err, q |-> built.q, payload |-> NoPayload]
  ELSE IF NamespaceOrDbMissing(built.q)
  THEN [ok |-> FALSE, err |-> ErrNsDb, q |-> built.q, payload |-> NoPayload]
  ELSE [ok |-> TRUE, err |-> ErrNone, q |-> built.q,
        payload |-> QueryPayload(built.q, built.query)]

(***************************************************************************)
(* The TableBuilder of packages/surreal-query/src/surrealTables.ts.        *)
(***************************************************************************)
\* enum TABLETYPE
SCHEMAFULL == <<"S", "C", "H", "E", "M", "A", "F", "U", "L", "L">>
SCHEMALESS == <<"S", "C", "H", "E", "M", "A", "L", "E", "S", "S">>
TABLETYPE == {SCHEMAFULL, SCHEMALESS}

\* literal text of buildFields, index and generate
kDefineField == <<"D", "E", "F", "I", "N", "E", " ", "F", "I", "E", "L", "D", " ">>
kOnTable == <<" ", "O", "N", " ", "T", "A", "B", "L", "E", " ">>
kType == <<" ", "T", "Y", "P", "E", " ">>
kOptionOpen == <<"o", "p", "t", "i", "o", "n", "<">>
kArrayOpen == <<"a", "r", "r", "a", "y", "<">>
kClose == <<">">>
kReferencesTable == <<" ", "R", "E", "F", "E", "R", "E", "N", "C", "E", "S", " ", "T", "A", "B", "L", "E", " ">>
kFlexibleTypeObject == <<"F", "L", "E", "X", "I", "B", "L", "E", " ", "T", "Y", "P", "E", " ", "o", "b", "j", "e", "c", "t">>
kDefineIndex == <<"D", "E", "F", "I", "N", "E", " ", "I", "N", "D", "E", "X", " ">>
kFields == <<" ", "F", "I", "E", "L", "D", "S", " ">>
kUnique == <<" ", "U", "N", "I", "Q", "U", "E">>
kSemicolon == <<";">>
kCommaSpace == <<",", " ">>
kNewline == <<"\n">>
kDefineTable == <<"D", "E", "F", "I", "N", "E", " ", "T", "A", "B", "L", "E", " ", "I", "F", " ", "N", "O", "T", " ", "E", "X", "I", "S", "T", "S", " ">>

\* the type names of the fieldType helpers
tId == <<"i", "d">>
tString == <<"s", "t", "r", "i", "n", "g">>
tNumber == <<"n", "u", "m", "b", "e", "r">>
tBoolean == <<"b", "o", "o", "l", "e", "a", "n">>
tArray == <<"a", "r", "r", "a", "y">>
tObject == <<"o", "b", "j", "e", "c", "t">>

\* JavaScript booleans and arrays (an array is an object whose own
\* properties are its indices)
Bool(b) == [t |-> "bool", s |-> <<>>, n |-> IF b THEN 1 ELSE 0, props |-> <<>>]
Arr(items) ==
  [t |-> "arr", s |-> <<>>, n |-> 0,
   props |-> [i \in 1..Len(items) |-> Prop(NatToString(i - 1), items[i])]]

\* the elements of an array in index order
Elements(v) == [i \in 1..Len(v.props) |-> v.props[i].v]

RECURSIVE TrimStart(_)
\* String.prototype.trimStart
TrimStart(text) ==
  IF Len(text) > 0 /\ text[1] = " " THEN TrimStart(Tail(text)) ELSE text

\* String.prototype.trim
Trim(text) == TrimStart(TrimEnd(text))

\* type FieldDefinition: itemType is the empty sequence when the property is
\* absent and the one-element sequence of the item descriptor otherwise
FieldDefinition(type, refTable, optional, itemType, flexible) ==
  [type |-> type, refTable |-> refTable, optional |-> optional,
   itemType |-> itemType, flexible |-> flexible]

\* the helpers of fieldType
fieldType_id(refTable) == FieldDefinition(tId, refTable, Undefined, <<>>, Undefined)
fieldType_string == FieldDefinition(tString, Undefined, Undefined, <<>>, Undefined)
fieldType_number == FieldDefinition(tNumber, Undefined, Undefined, <<>>, Undefined)
fieldType_boolean == FieldDefinition(tBoolean, Undefined, Undefined, <<>>, Undefined)
fieldType_array(itemType) ==
  FieldDefinition(tArray, Undefined, Undefined, <<itemType>>, Undefined)
fieldType_object(flexible) ==
  FieldDefinition(tObject, Undefined, Undefined, <<>>,
                  IF flexible = Undefined THEN Bool(FALSE) ELSE flexible)
fieldType_optional(field) == [field EXCEPT !.optional = Bool(TRUE)]

\* the table builder that does not exist
NoTableBuilder == [table |-> <<>>, type |-> <<>>, fields |-> <<>>, indexes |-> <<>>]

\* buildFields: the local variable type of one field
FieldType(field) ==
  LET type == TrimEnd(field.type)
      wrapped == IF Truthy(field.optional)
                 THEN kOptionOpen \o TrimEnd(type) \o kClose
                 ELSE type
  IN IF field.type = tArray /\ Len(field.itemType) > 0
     THEN kArrayOpen \o TrimEnd(field.itemType[1].type) \o kClose
     ELSE wrapped

\* buildFields: the local constant ref of one field
FieldRef(field) ==
  IF Truthy(field.refTable)
  THEN kReferencesTable \o StringOf(field.refTable)
  ELSE <<>>

\* buildFields: the local constant flexibleType of one field
FlexibleType(field) ==
  IF Truthy(field.flexible) THEN kFlexibleTypeObject ELSE TrimEnd(FieldType(field))

\* mutant: the flexible flag is honoured whatever the type of the field
FieldTypeText_flexibleAny(field) ==
  IF Truthy(field.flexible) THEN kFlexibleTypeObject ELSE TrimEnd(FieldType(field))

\* buildFields: the type text interpolated into the line of one field
FieldTypeText(field) ==
  IF field.type = tObject
  THEN TrimEnd(FlexibleType(field))
  ELSE TrimEnd(FieldType(field))

\* buildFields: the line pushed for one entry of the field mapping
FieldLine(table, name, field) ==
  kDefineField \o name \o kOnTable \o table \o kType
    \o FieldTypeText(field) \o TrimEnd(FieldRef(field)) \o kSemicolon

\* buildFields: entries is Object.entries(fields), pairs <<name, field>>
buildFields(table, entries) ==
  [i \in 1..Len(entries) |-> FieldLine(table, entries[i][1], entries[i][2])]

\* new TableBuilder(table, type, fields)
TableBuilder(table, type, entries) ==
  [table |-> table, type |-> type, fields |-> buildFields(table, entries),
   indexes |-> <<>>]

\* defineSchema(table, schemaType, fields); schemaType defaults to SCHEMALESS
defineSchema(table, schemaType, entries) ==
  TableBuilder(table, IF schemaType = Undefined THEN SCHEMALESS ELSE schemaType.s,
               entries)

\* index: the local constant fieldList
FieldList(fields) ==
  IF fields.t = "arr"
  THEN Join([i \in 1..Len(fields.props) |-> StringOf(fields.props[i].v)], kCommaSpace)
  ELSE TrimEnd(fields.s)

\* index: the local constant uniqueStr; unique defaults to false
UniqueStr(unique) ==
  IF Truthy(IF unique = Undefined THEN Bool(FALSE) ELSE unique) THEN kUnique ELSE <<>>

\* index: the line pushed
IndexLine(table, indexName, fields, unique) ==
  kDefineIndex \o indexName \o kOnTable \o table \o kFields
    \o FieldList(fields) \o UniqueStr(unique) \o kSemicolon

\* TableBuilder.index(indexName, fields, unique)
index(b, indexName, fields, unique) ==
  Returns([b EXCEPT !.indexes = Append(@, IndexLine(b.table, indexName, fields, unique))])

\* generate: the header line
Header(b) == kDefineTable \o b.table \o kSpace \o b.type \o kSemicolon

\* mutant: the index lines are rendered before the field lines
generate_indexesFirst(b) ==
  ReturnsQuery(b,
    Header(b) \o kNewline
      \o Join([i \in 1..Len(b.indexes) |-> Trim(b.indexes[i])], kNewline)
      \o kNewline
      \o Join([i \in 1..Len(b.fields) |-> Trim(b.fields[i])], kNewline))

\* mutant: the index lines are handed over: the builder holds none afterwards
generate_draining(b) ==
  ReturnsQuery([b EXCEPT !.indexes = <<>>],
    Header(b) \o kNewline
      \o Join([i \in 1..Len(b.fields) |-> Trim(b.fields[i])], kNewline)
      \o kNewline
      \o Join([i \in 1..Len(b.indexes) |-> Trim(b.indexes[i])], kNewline))

\* TableBuilder.generate()
generate(b) ==
  ReturnsQuery(b,
    Header(b) \o kNewline
      \o Join([i \in 1..Len(b.fields) |-> Trim(b.fields[i])], kNewline)
      \o kNewline
      \o Join([i \in 1..Len(b.indexes) |-> Trim(b.indexes[i])], kNewline))

(***************************************************************************)
(* The string-literal-typed schema builder: its fields are declared by     *)
(* type tokens ("string", "int", ..., "record(<table>)") and defineSchema  *)
(* validates each entry. Only its type of tokens (SurrealFieldTypes,       *)
(* types/index.ts) is in the sources at hand; the validation is modelled   *)
(* from the specification of the repository (spec.md, "Validation          *)
(* variant").                                                              *)
(***************************************************************************)
kRecord == <<"r", "e", "c", "o", "r", "d">>
kRecordOpen == <<"r", "e", "c", "o", "r", "d", "(">>
kRecordClose == <<")">>

\* the characters of an identifier: letters, digits and the underscore
IdentifierChars ==
  {"a", "b", "c", "d", "e", "f", "g", "h", "i", "j", "k", "l", "m",
   "n", "o", "p", "q", "r", "s", "t", "u", "v", "w", "x", "y", "z",
   "A", "B", "C", "D", "E", "F", "G", "H", "I", "J", "K", "L", "M",
   "N", "O", "P", "Q", "R", "S", "T", "U", "V", "W", "X", "Y", "Z",
   "0", "1", "2", "3", "4", "5", "6", "7", "8", "9", "_"}

ErrRecord == "Invalid record type"

\* mutant: the parentheses of a record token may be empty
MatchesRecord_orEmpty(token) ==
  /\ Len(token) >= Len(kRecordOpen) + Len(kRecordClose)
  /\ StartsWith(token, kRecordOpen)
  /\ EndsWith(token, kRecordClose)
  /\ \A i \in (Len(kRecordOpen) + 1)..(Len(token) - 1) : token[i] \in IdentifierChars

\* token is record(<identifier>), from its first character to its last
MatchesRecord(token) ==
  /\ Len(token) > Len(kRecordOpen) + Len(kRecordClose)
  /\ StartsWith(token, kRecordOpen)
  /\ EndsWith(token, kRecordClose)
  /\ \A i \in (Len(kRecordOpen) + 1)..(Len(token) - 1) : token[i] \in IdentifierChars

\* the entry <<name, token>> passes the validation of defineSchema
ValidEntry(entry) == StartsWith(entry[2], kRecord) => MatchesRecord(entry[2])

\* defineSchema of the string-literal-typed builder: the first entry that
\* fails the validation makes it throw an error naming the field of the
\* entry; named is that name
defineTypedSchema(table, entries) ==
  LET invalid == {i \in 1..Len(entries) : ~ValidEntry(entries[i])} IN
  IF invalid = {}
  THEN [ok |-> TRUE, err |-> ErrNone, named |-> <<>>,
        q |-> [NoTableBuilder EXCEPT !.table = table]]
  ELSE [ok |-> FALSE, err |-> ErrRecord,
        named |-> entries[CHOOSE i \in invalid : \A j \in invalid : i <= j][1],
        q |-> NoTableBuilder]

(***************************************************************************)
(* State.                                                                  *)
(*   query   the builder under test                                        *)
(*   twin    a second builder that receives the same calls, except that a  *)
(*           filter(f, v) with operator and conjunction omitted reaches it *)
(*           as filter(f, v, "=", "AND")                                   *)
(*   hist    history of the calls that returned: the arguments of the      *)
(*           filter calls in order, the last argument of sort, limit,      *)
(*           setData and of the namespace and database setters (or of the  *)
(*           constructor), the sets of all sort and limit arguments, and   *)
(*           whether a render was refused for lack of data                 *)
(*   result  the last call made on query and its outcome                   *)
(*   schema  the TableBuilder under test                                   *)
(*   schemaHist  history of the calls on schema: the arguments of          *)
(*           defineSchema, the arguments of the index calls in order, the  *)
(*           last call with its arguments and outcome, and the number of   *)
(*           generate calls made in a row                                  *)
(***************************************************************************)
VARIABLES query, twin, hist, result, schema, schemaHist

queryVars == <<query, twin, hist, result>>
schemaVars == <<schema, schemaHist>>
vars == <<query, twin, hist, result, schema, schemaHist>>

\* no call yet
None == [t |-> "none", s |-> <<>>, n |-> 0, props |-> <<>>]

Outcome(method, args, out) ==
  [method |-> method, args |-> args, ok |-> out.ok, err |-> out.err,
   query |-> IF method = "buildQuery" THEN out.query ELSE <<>>,
   payload |-> IF method = "getQueryPayload" THEN out.payload ELSE NoPayload]

\* the history before any call on a schema
NoCalls ==
  [table |-> <<>>, type |-> Undefined, entries |-> <<>>, index |-> <<>>,
   method |-> "none", args |-> <<>>, ok |-> TRUE, err |-> ErrNone,
   named |-> <<>>, text |-> <<>>, runs |-> 0]

\* no schema was defined
NoSchema == schema = NoTableBuilder /\ schemaHist = NoCalls

\* no query builder was constructed
NoQuery ==
  /\ query = NoBuilder
  /\ twin = NoBuilder
  /\ hist = [filter |-> <<>>, sort |-> None, limit |-> None, data |-> None,
             namespace |-> Undefined, db_name |-> Undefined,
             sorts |-> {}, limits |-> {}, refused |-> FALSE]
  /\ result = [method |-> "none", args |-> <<>>, ok |-> TRUE, err |-> ErrNone,
               query |-> <<>>, payload |-> NoPayload]

\* the constructor threw: there is no builder to call
Constructed == ~(result.method = "constructor" /\ ~result.ok)

(***************************************************************************)
(* Actions: one per method, each on the arguments of the call.             *)
(***************************************************************************)
New(table, namespace, db_name) ==
  LET out == constructor(table, namespace, db_name) IN
  /\ query = out.q
  /\ twin = out.q
  /\ hist = [filter |-> <<>>, sort |-> None, limit |-> None, data |-> None,
             namespace |-> namespace, db_name |-> db_name,
             sorts |-> {}, limits |-> {}, refused |-> FALSE]
  /\ result = Outcome("constructor", <<table, namespace, db_name>>, out)
  /\ NoSchema

SetNamespaceAndDb(namespace, db_name) ==
  LET out == setNamespaceAndDb(query, namespace, db_name) IN
  /\ Constructed
  /\ query' = out.q
  /\ twin' = setNamespaceAndDb(twin, namespace, db_name).q
  /\ hist' = IF out.ok
             THEN [hist EXCEPT !.namespace = namespace, !.db_name = db_name]
             ELSE hist
  /\ result' = Outcome("setNamespaceAndDb", <<namespace, db_name>>, out)
  /\ UNCHANGED schemaVars

SetDb(db_name) ==
  LET out == setDb(query, db_name) IN
  /\ Constructed
  /\ query' = out.q
  /\ twin' = setDb(twin, db_name).q
  /\ hist' = IF out.ok THEN [hist EXCEPT !.db_name = db_name] ELSE hist
  /\ result' = Outcome("setDb", <<db_name>>, out)
  /\ UNCHANGED schemaVars

SetNamespace(namespace) ==
  LET out == setNamespace(query, namespace) IN
  /\ Constructed
  /\ query' = out.q
  /\ twin' = setNamespace(twin, namespace).q
  /\ hist' = IF out.ok THEN [hist EXCEPT !.namespace = namespace] ELSE hist
  /\ result' = Outcome("setNamespace", <<namespace>>, out)
  /\ UNCHANGED schemaVars

\* the render threw for lack of data
NoDataThrown(out) == ~out.ok /\ out.err \in {ErrNoDataCreate, ErrNoDataUpdate}

\* the call had neither operator nor conjunction
Defaulted(args) == args[3] = Undefined /\ args[4] = Undefined

\* args = <<field, value, operator, logicalOperator>>
Filter(args) ==
  LET out == filter(query, args[1], args[2], args[3], args[4]) IN
  /\ Constructed
  /\ Len(query.filters) < MaxFilters
  /\ query' = out.q
  /\ twin' = IF Defaulted(args)
             THEN filter(twin, args[1], args[2], Str(opEq), Str(kAND)).q
             ELSE filter(twin, args[1], args[2], args[3], args[4]).q
  /\ hist' = IF out.ok THEN [hist EXCEPT !.filter = Append(@, args)] ELSE hist
  /\ result' = Outcome("filter", args, out)
  /\ UNCHANGED schemaVars

Sort(field) ==
  LET out == sort(query, field) IN
  /\ Constructed
  /\ query' = out.q
  /\ twin' = sort(twin, field).q
  /\ hist' = IF out.ok
             THEN [hist EXCEPT !.sort = field, !.sorts = @ \cup {field}]
             ELSE hist
  /\ result' = Outcome("sort", <<field>>, out)
  /\ UNCHANGED schemaVars

Limit(count) ==
  LET out == limit(query, count) IN
  /\ Constructed
  /\ query' = out.q
  /\ twin' = limit(twin, count).q
  /\ hist' = IF out.ok
             THEN [hist EXCEPT !.limit = count, !.limits = @ \cup {count}]
             ELSE hist
  /\ result' = Outcome("limit", <<count>>, out)
  /\ UNCHANGED schemaVars

SetData(data) ==
  LET out == setData(query, data) IN
  /\ Constructed
  /\ query' = out.q
  /\ twin' = setData(twin, data).q
  /\ hist' = IF out.ok THEN [hist EXCEPT !.data = data] ELSE hist
  /\ result' = Outcome("setData", <<data>>, out)
  /\ UNCHANGED schemaVars

BuildQuery(operation) ==
  LET out == buildQuery(query, operation) IN
  /\ Constructed
  /\ query' = out.q
  /\ twin' = buildQuery(twin, operation).q
  /\ result' = Outcome("buildQuery", <<operation>>, out)
  /\ UNCHANGED schemaVars
  /\ hist' = [hist EXCEPT !.refused = @ \/ NoDataThrown(out)]

GetQueryPayload(operation) ==
  LET out == getQueryPayload(query, operation) IN
  /\ Constructed
  /\ query' = out.q
  /\ twin' = getQueryPayload(twin, operation).q
  /\ result' = Outcome("getQueryPayload", <<operation>>, out)
  /\ UNCHANGED schemaVars
  /\ hist' = [hist EXCEPT !.refused = @ \/ NoDataThrown(out)]

\* defineSchema(table, schemaType, fields), entries the entries of fields
DefineSchema(table, schemaType, entries) ==
  /\ schema = defineSchema(table, schemaType, entries)
  /\ schemaHist = [NoCalls EXCEPT !.table = table, !.type = schemaType,
                                  !.entries = entries, !.method = "defineSchema"]
  /\ NoQuery

\* args = <<indexName, fields, unique>>
Index(args) ==
  LET out == index(schema, args[1], args[2], args[3]) IN
  /\ schemaHist.method # "none"
  /\ Len(schema.indexes) < MaxIndexes
  /\ schema' = out.q
  /\ schemaHist' = [schemaHist EXCEPT
                      !.index = IF out.ok THEN Append(@, args) ELSE @,
                      !.method = "index", !.args = args, !.ok = out.ok,
                      !.err = out.err,
                      !.text = <<>>, !.runs = 0]
  /\ UNCHANGED queryVars

Generate ==
  LET out == generate(schema) IN
  /\ schemaHist.method # "none"
  /\ schemaHist.runs < MaxGenerates
  /\ schema' = out.q
  /\ schemaHist' = [schemaHist EXCEPT
                      !.method = "generate", !.args = <<>>, !.ok = out.ok,
                      !.err = out.err,
                      !.text = out.query, !.runs = @ + 1]
  /\ UNCHANGED queryVars

\* defineSchema of the string-literal-typed builder on the table and the
\* entries <<name, token>> the history holds
DefineTypedSchema ==
  LET out == defineTypedSchema(schemaHist.table, schemaHist.entries) IN
  /\ schemaHist.method = "none"
  /\ schema' = out.q
  /\ schemaHist' = [schemaHist EXCEPT
                      !.method = "defineSchema", !.ok = out.ok, !.err = out.err,
                      !.named = out.named]
  /\ UNCHANGED queryVars

(***************************************************************************)
(* Arguments of the calls.                                                 *)
(***************************************************************************)
sEmpty == Str(<<>>)
sAny == Str(<<"a", "n", "y">>)
sA == Str(<<"a">>)
sB == Str(<<"b">>)
dataJohn ==
  Obj(<<Prop(<<"n", "a", "m", "e">>, Str(<<"J">>)), Prop(<<"a", "g", "e">>, Num(30))>>)
dataAge == Obj(<<Prop(<<"a", "g", "e">>, Num(31))>>)

Operations == {"SELECT", "CREATE", "UPDATE", "DELETE"}
\* an operation token outside the type of the parameter
OperationArgs == Operations \cup {"UPSERT"}

(***************************************************************************)
(* Spec: every method of the builder, every way of constructing it.        *)
(***************************************************************************)
TableArgs == {sEmpty, sAny}
ParamArgs ==
  {<<Undefined, Undefined>>, <<sEmpty, Str(<<"d">>)>>,
   <<Str(<<"n">>), sEmpty>>, <<Str(<<"n">>), Str(<<"d">>)>>}
NamespaceArgs == {sEmpty, Str(<<"m">>)}
DbArgs == {sEmpty, Str(<<"e">>)}
FilterArgs ==
  {<<sA, Num(30), Undefined, Undefined>>, <<sEmpty, Num(30), Undefined, Undefined>>}
SortArgs == {sEmpty, sA}
LimitArgs == {Num(0 - 1), Num(0), Num(2)}
DataArgs == {dataJohn, dataAge}

Init ==
  \E table \in TableArgs, params \in ParamArgs : New(table, params[1], params[2])

Next ==
  \/ \E namespace \in NamespaceArgs, db_name \in DbArgs :
       SetNamespaceAndDb(namespace, db_name)
  \/ \E db_name \in DbArgs : SetDb(db_name)
  \/ \E namespace \in NamespaceArgs : SetNamespace(namespace)
  \/ \E args \in FilterArgs : Filter(args)
  \/ \E field \in SortArgs : Sort(field)
  \/ \E count \in LimitArgs : Limit(count)
  \/ \E data \in DataArgs : SetData(data)
  \/ \E operation \in OperationArgs : BuildQuery(operation)
  \/ \E operation \in OperationArgs : GetQueryPayload(operation)

Spec == Init /\ [][Next]_vars

(***************************************************************************)
(* SpecFilters: a builder constructed with namespace and database, driven  *)
(* by filter calls over every operator, both conjunctions and the          *)
(* defaults, numbers and strings as values, and rendered.                  *)
(***************************************************************************)
RichFilterArgs ==
  {<<sA, Num(30), Undefined, Undefined>>,
   <<sA, Num(30), Str(opEq), Str(kAND)>>,
   <<sB, Str(kOR), Str(opGe), Str(kOR)>>,
   <<sA, Str(<<"J">>), Str(opNe), Undefined>>,
   <<sB, Num(30), Str(opLt), Str(kOR)>>,
   <<sA, Str(kAND), Str(opGt), Str(kAND)>>,
   <<sB, Num(0 - 7), Str(opLe), Undefined>>,
   <<sEmpty, Num(30), Undefined, Undefined>>}

InitFilters == New(sAny, Str(<<"n">>), Str(<<"d">>))

NextFilters ==
  \/ \E args \in RichFilterArgs : Filter(args)
  \/ \E data \in {dataAge} : SetData(data)
  \/ \E operation \in Operations : BuildQuery(operation)

SpecFilters == InitFilters /\ [][NextFilters]_vars

(***************************************************************************)
(* SpecSelect: a builder constructed with namespace and database, driven   *)
(* by filter, sort, limit and setData in any order, and rendered.          *)
(***************************************************************************)
SelectSortArgs == {sEmpty, sA, sB}
SelectLimitArgs == {Num(0 - 1), Num(0), Num(2), Num(10), NaN}

InitSelect == New(sAny, Str(<<"n">>), Str(<<"d">>))

NextSelect ==
  \/ \E args \in FilterArgs : Filter(args)
  \/ \E field \in SelectSortArgs : Sort(field)
  \/ \E count \in SelectLimitArgs : Limit(count)
  \/ \E data \in {dataAge} : SetData(data)
  \/ \E operation \in Operations : BuildQuery(operation)

SpecSelect == InitSelect /\ [][NextSelect]_vars

(***************************************************************************)
(* SpecFields: schemas of one field, over the descriptors the fieldType    *)
(* helpers build and descriptors written by hand.                          *)
(***************************************************************************)
tableU == <<"u">>
nameF == <<"f">>
nameG == <<"g">>
refP == Str(<<"p">>)

\* the descriptors the helpers build without optional
PlainFieldArgs ==
  {fieldType_id(Undefined), fieldType_id(refP), fieldType_string,
   fieldType_number, fieldType_boolean, fieldType_array(fieldType_id(refP)),
   fieldType_array(fieldType_string), fieldType_object(Undefined),
   fieldType_object(Bool(TRUE))}

\* descriptors written by hand: a string with a reference table, a string
\* with the flexible flag, an object with a reference table
HandFieldArgs ==
  {FieldDefinition(tString, refP, Undefined, <<>>, Undefined),
   FieldDefinition(tString, Undefined, Undefined, <<>>, Bool(TRUE)),
   FieldDefinition(tObject, refP, Undefined, <<>>, Undefined)}

FieldArgs ==
  PlainFieldArgs \cup {fieldType_optional(field) : field \in PlainFieldArgs}
    \cup HandFieldArgs \cup {fieldType_array(fieldType_optional(fieldType_string))}

FieldsIndexArgs ==
  {<<<<"i">>, Str(<<"f">>), Undefined>>, <<<<"j">>, Arr(<<Str(<<"f">>)>>), Bool(TRUE)>>}

InitFields ==
  \E field \in FieldArgs, schemaType \in {Undefined, Str(SCHEMAFULL)} :
    DefineSchema(tableU, schemaType, <<<<nameF, field>>>>)

NextFields ==
  \/ \E args \in FieldsIndexArgs : Index(args)
  \/ Generate

SpecFields == InitFields /\ [][NextFields]_vars

(***************************************************************************)
(* SpecTables: schemas of no, one and two fields with index calls on one   *)
(* field name and on lists of names, with and without unique.              *)
(***************************************************************************)
TableTypeArgs == {Undefined, Str(SCHEMAFULL), Str(SCHEMALESS)}

EntriesArgs ==
  {<<>>,
   <<<<nameF, fieldType_id(refP)>>>>,
   <<<<nameF, fieldType_string>>, <<nameG, fieldType_optional(fieldType_number)>>>>,
   <<<<nameG, fieldType_optional(fieldType_number)>>, <<nameF, fieldType_string>>>>}

IndexArgs ==
  {<<<<"i">>, Str(<<"a">>), Undefined>>,
   <<<<"i">>, Arr(<<Str(<<"a">>)>>), Undefined>>,
   <<<<"i">>, Str(<<"a">>), Bool(TRUE)>>,
   <<<<"j">>, Arr(<<Str(<<"a">>), Str(<<"b">>)>>), Bool(TRUE)>>,
   <<<<"j">>, Arr(<<Str(<<"b">>), Str(<<"a">>)>>), Bool(FALSE)>>,
   <<<<"i">>, Str(<<"a", " ">>), Undefined>>,
   <<<<"i">>, Arr(<<Str(<<"a", " ">>)>>), Undefined>>,
   <<<<"i">>, Str(<<>>), Undefined>>,
   <<<<"j">>, Arr(<<>>), Bool(TRUE)>>}

InitTables ==
  \E schemaType \in TableTypeArgs, entries \in EntriesArgs :
    DefineSchema(tableU, schemaType, entries)

NextTables ==
  \/ \E args \in IndexArgs : Index(args)
  \/ Generate

SpecTables == InitTables /\ [][NextTables]_vars

(***************************************************************************)
(* SpecTokens: schemas of one and two fields declared by type tokens,      *)
(* record tokens well and ill formed among them.                           *)
(***************************************************************************)
TokenArgs ==
  {<<"i", "n", "t">>, <<"r", "e", "c", "o", "r", "d", "(", "c", ")">>, <<"r", "e", "c", "o", "r", "d", "(", "c", "_", "1", ")">>, <<"r", "e", "c", "o", "r", "d", "(", ")">>, <<"r", "e", "c", "o", "r", "d">>,
   <<"r", "e", "c", "o", "r", "d", "(", "c">>, <<"r", "e", "c", "o", "r", "d", "(", "c", ")", "x">>, <<"r", "e", "c", "o", "r", "d", "(", "c", " ", "d", ")">>,
   <<"r", "e", "c", "o", "r", "d", "s">>}

TokenEntriesArgs ==
  {<<<<name, token>>>> : name \in {nameF, nameG}, token \in TokenArgs}
    \cup {<<<<nameF, tokenF>>, <<nameG, tokenG>>>> : tokenF \in TokenArgs, tokenG \in TokenArgs}
    \cup {<<<<nameG, tokenG>>, <<nameF, tokenF>>>> : tokenF \in TokenArgs, tokenG \in TokenArgs}

InitTokens ==
  \E entries \in TokenEntriesArgs :
    /\ schema = NoTableBuilder
    /\ schemaHist = [NoCalls EXCEPT !.table = tableU, !.entries = entries]
    /\ NoQuery

NextTokens == DefineTypedSchema

SpecTokens == InitTokens /\ [][NextTokens]_vars

(***************************************************************************)
(* What the claims speak of.                                               *)
(***************************************************************************)
\* the last call was buildQuery(operation) and it returned a statement
Rendered(operation) ==
  result.method = "buildQuery" /\ result.ok /\ result.args = <<operation>>

\* the operations that render a WHERE segment
RenderedWithWhere == {"SELECT", "UPDATE", "DELETE"}

\* a namespace or database that was supplied and is not empty
IsSet(v) == v.t = "str" /\ Len(v.s) > 0

\* the number of places of text where pat occurs
Occurrences(text, pat) ==
  Cardinality({i \in 1..(Len(text) - Len(pat) + 1) :
                 SubSeq(text, i, i + Len(pat) - 1) = pat})

\* the clause of a filter call <<field, value, operator, conjunction>>: field operator 'value'
ClaimClause(c) ==
  c[1].s \o kSpace \o (IF c[3] = Undefined THEN opEq ELSE c[3].s) \o kSpace
    \o kQuote \o StringOf(c[2]) \o kQuote

\* the conjunction of a filter call: AND when omitted
ClaimConjunction(c) == IF c[4] = Undefined THEN kAND ELSE c[4].s

RECURSIVE ClaimWhere(_)
\* the clauses in call order, the conjunction of each call after its clause, none after the last
ClaimWhere(cs) ==
  IF Len(cs) = 1 THEN ClaimClause(cs[1])
  ELSE ClaimClause(cs[1]) \o kSpace \o ClaimConjunction(cs[1]) \o kSpace
         \o ClaimWhere(Tail(cs))

\* the statement the builder renders when it holds no filter
WithoutFilters(operation) ==
  buildQuery([query EXCEPT !.filters = <<>>], operation).query

kWHERE == <<"W", "H", "E", "R", "E">>
kORDERBY == <<"O", "R", "D", "E", "R", " ", "B", "Y">>
kLIMIT == <<"L", "I", "M", "I", "T">>

(***************************************************************************)
(* Claims on the WHERE text (SpecFilters).                                 *)
(***************************************************************************)
\* C1: with namespace and database set and at least one filter appended, the
\* WHERE text rendered for SELECT, UPDATE and DELETE (here the end of the
\* statement: no sort field, no limit) never ends with a bare AND or OR.
C1_NoTrailingConjunction ==
  \A operation \in RenderedWithWhere :
    (Rendered(operation) /\ Len(hist.filter) > 0)
      => /\ ~EndsWith(result.query, kSpace \o kAND)
         /\ ~EndsWith(result.query, kSpace \o kOR)

\* C1 witness: UPDATE rendered after two or more filters, the last one
\* filter("b", "OR", ">=", "OR")
C1_Witness ==
  /\ Rendered("UPDATE")
  /\ Len(hist.filter) >= 2
  /\ hist.filter[Len(hist.filter)] = <<sB, Str(kOR), Str(opGe), Str(kOR)>>

\* C2: after n >= 1 successful filter calls the WHERE text of SELECT, UPDATE
\* and DELETE is the clauses field operator 'value' in call order, the
\* conjunction of call i (AND when omitted) between clause i and clause i+1,
\* none after the last; nothing reordered, dropped or deduplicated, every
\* value in single quotes.
C2_WhereIsTheCallsInOrder ==
  \A operation \in RenderedWithWhere :
    (Rendered(operation) /\ Len(hist.filter) >= 1)
      => result.query = WithoutFilters(operation) \o kWhere \o ClaimWhere(hist.filter)

\* C2 witness: SELECT rendered after three filter calls, the first two the
\* same call with conjunction OR, a number as value among them
C2_Witness ==
  /\ Rendered("SELECT")
  /\ Len(hist.filter) >= 3
  /\ hist.filter[1] = hist.filter[2]
  /\ hist.filter[1] = <<sB, Num(30), Str(opLt), Str(kOR)>>
  /\ hist.filter[3] # hist.filter[1]

\* C3: the builder whose filter(f, v) calls were made as filter(f, v, "=", "AND")
\* renders, for every operation, what the builder under test renders, wherever
\* those calls stand in the sequence.
C3_DefaultsAreEqualsAnd ==
  \A operation \in OperationArgs :
    LET mine == buildQuery(query, operation)
        other == buildQuery(twin, operation)
    IN  mine.ok = other.ok /\ mine.err = other.err /\ mine.query = other.query

\* C3 witness: a statement rendered after a filter(f, v) call that is not the
\* last filter call and one that is
C3_Witness ==
  /\ Rendered("SELECT")
  /\ Len(hist.filter) >= 2
  /\ Defaulted(hist.filter[1])
  /\ Defaulted(hist.filter[Len(hist.filter)])

(***************************************************************************)
(* Claims on the segments of the statements (SpecSelect).                  *)
(***************************************************************************)
\* C4: SELECT renders SELECT * FROM <table>, then WHERE <fragment> if and
\* only if a filter was appended, then ORDER BY <sortField> if and only if
\* sort was successfully called, then LIMIT <limitCount> if and only if limit
\* was successfully called, in that order.
C4_SelectSegments ==
  Rendered("SELECT") =>
    result.query =
      kSelectFrom \o query.table
        \o (IF Len(hist.filter) > 0 THEN kWhere \o ClaimWhere(hist.filter) ELSE <<>>)
        \o (IF hist.sort # None THEN kOrderBy \o StringOf(hist.sort) ELSE <<>>)
        \o (IF hist.limit # None THEN kLimit \o StringOf(hist.limit) ELSE <<>>)

\* C5: CREATE, UPDATE and DELETE never render ORDER BY or LIMIT, CREATE never
\* renders WHERE, UPDATE and DELETE render WHERE if and only if the filter
\* list is not empty.
C5_NoSortLimitOutsideSelect ==
  \A operation \in {"CREATE", "UPDATE", "DELETE"} :
    Rendered(operation) =>
      /\ ~Contains(result.query, kORDERBY)
      /\ ~Contains(result.query, kLIMIT)
      /\ (operation = "CREATE" => ~Contains(result.query, kWHERE))
      /\ (operation # "CREATE" =>
            (Contains(result.query, kWHERE) <=> Len(hist.filter) > 0))

\* C5 witness: UPDATE rendered by a builder that holds a filter, a sort field
\* and a limit
C5_Witness ==
  /\ Rendered("UPDATE")
  /\ Len(hist.filter) > 0
  /\ hist.sort = sB
  /\ hist.limit = Num(10)

\* C9: SELECT holds at most one ORDER BY and at most one LIMIT segment; the
\* ORDER BY segment is there once sort has succeeded and carries the field of
\* the last successful sort call, the LIMIT segment is there once limit has
\* succeeded with a positive count and, when there, carries the count of the
\* last successful limit call; no earlier field or count is rendered.
C9_LastSortAndLimitWin ==
  Rendered("SELECT") =>
    LET orderBy == IF hist.sort # None THEN kOrderBy \o StringOf(hist.sort) ELSE <<>>
        limited == Occurrences(result.query, kLIMIT) = 1
        limitSeg == IF limited THEN kLimit \o StringOf(hist.limit) ELSE <<>>
    IN  /\ Occurrences(result.query, kORDERBY) = (IF hist.sort # None THEN 1 ELSE 0)
        /\ Occurrences(result.query, kLIMIT) <= 1
        /\ (hist.limit.t = "num" /\ hist.limit.n > 0) => limited
        /\ limited => hist.limit # None
        /\ EndsWith(result.query, orderBy \o limitSeg)
        /\ \A f \in hist.sorts \ {hist.sort} :
             ~Contains(result.query, kOrderBy \o StringOf(f))
        /\ \A c \in hist.limits \ {hist.limit} :
             ~Contains(result.query, kLimit \o StringOf(c))

\* C9 witness: SELECT rendered after sort("a"), sort("b") and limit(2), limit(10)
C9_Witness ==
  /\ Rendered("SELECT")
  /\ hist.sorts = {sA, sB} /\ hist.sort = sB
  /\ hist.limits = {Num(2), Num(10)} /\ hist.limit = Num(10)

(***************************************************************************)
(* Claims on validation and on the payload (Spec).                         *)
(***************************************************************************)
\* C6: buildQuery and getQueryPayload throw the namespace/database error
\* whenever namespace or database is unset (never supplied, or supplied empty
\* at construction), for every operation token and before the test on data
\* and on the operation; with both set they never throw that error.
C6_NamespaceAndDbFirst ==
  result.method \in {"buildQuery", "getQueryPayload"} =>
    IF IsSet(hist.namespace) /\ IsSet(hist.db_name)
    THEN result.err # ErrNsDb
    ELSE ~result.ok /\ result.err = ErrNsDb

\* C6 witness: getQueryPayload of an operation token that is no operation, on
\* a builder constructed with an empty namespace and holding no data
C6_Witness ==
  /\ result.method = "getQueryPayload"
  /\ result.args = <<"UPSERT">>
  /\ result.err = ErrNsDb
  /\ hist.namespace = sEmpty
  /\ hist.data = None

\* the compact JSON text of the data records of the model
ClaimJSON(data) ==
  IF data = dataJohn
  THEN <<"{", "\"", "n", "a", "m", "e", "\"", ":", "\"", "J", "\"", ",",
         "\"", "a", "g", "e", "\"", ":", "3", "0", "}">>
  ELSE <<"{", "\"", "a", "g", "e", "\"", ":", "3", "1", "}">>

\* C7: with namespace and database set, buildQuery("CREATE") and
\* buildQuery("UPDATE") throw the error that names the operation if and only
\* if setData was never called; otherwise the statement starts with
\* CREATE <table> CONTENT <json> / UPDATE <table> CONTENT <json>, <json> the
\* compact JSON of the data set last, keys in order, numbers as numbers.
C7_DataRequiredAndSerialised ==
  \A operation \in {"CREATE", "UPDATE"} :
    (result.method = "buildQuery" /\ result.args = <<operation>>
       /\ IsSet(hist.namespace) /\ IsSet(hist.db_name)) =>
      IF hist.data = None
      THEN /\ ~result.ok
           /\ result.err = (IF operation = "CREATE" THEN ErrNoDataCreate
                            ELSE ErrNoDataUpdate)
      ELSE /\ result.ok
           /\ StartsWith(result.query,
                (IF operation = "CREATE" THEN kCreate ELSE kUpdate)
                  \o query.table \o kContent \o ClaimJSON(hist.data))

\* C7 witness: CREATE rendered from the data {name: "J", age: 30}
C7_Witness ==
  /\ Rendered("CREATE")
  /\ hist.data = dataJohn

\* C8: getQueryPayload(operation) fails exactly when buildQuery(operation)
\* fails in the same state; when it succeeds its query is what buildQuery
\* returns and its namespace and db_name are the values set last.
C8_PayloadIsBuildQuery ==
  result.method = "getQueryPayload" =>
    LET built == buildQuery(query, result.args[1]) IN
    /\ result.ok = built.ok
    /\ result.err = built.err
    /\ result.ok =>
         /\ result.payload.query = built.query
         /\ result.payload.namespace = hist.namespace
         /\ result.payload.db_name = hist.db_name

\* C8 witness: a payload returned after setNamespace("m") replaced the
\* namespace given to the constructor
C8_Witness ==
  /\ result.method = "getQueryPayload"
  /\ result.ok
  /\ hist.namespace = Str(<<"m">>)
  /\ hist.db_name = Str(<<"d">>)

\* the call was made with an invalid argument
InvalidCall(r) ==
  \/ r.method \in {"filter", "sort", "setNamespace", "setDb"} /\ r.args[1] = sEmpty
  \/ r.method = "limit" /\ r.args[1].t = "num" /\ r.args[1].n <= 0
  \/ r.method = "setNamespaceAndDb" /\ (r.args[1] = sEmpty \/ r.args[2] = sEmpty)

\* the validation errors of the mutators
ValidationErrors(method) ==
  CASE method = "filter" -> {ErrFilterField}
    [] method = "sort" -> {ErrSortField}
    [] method = "limit" -> {ErrLimit}
    [] method = "setNamespace" -> {ErrNamespace}
    [] method = "setDb" -> {ErrDatabase}
    [] OTHER -> {ErrNamespace, ErrDatabase}

\* C10: a mutator called with an invalid argument throws its validation
\* error and leaves the builder as it was; setNamespaceAndDb with a valid
\* namespace and an empty database keeps the namespace, a failed filter
\* appends nothing.
C10_InvalidCallChangesNothing ==
  [][InvalidCall(result') =>
       /\ ~result'.ok
       /\ result'.err \in ValidationErrors(result'.method)
       /\ query' = query]_vars

\* C10 witness: setNamespaceAndDb("m", "") has thrown on a builder that holds
\* the namespace "n" and a filter
C10_Witness ==
  /\ result.method = "setNamespaceAndDb"
  /\ result.args = <<Str(<<"m">>), sEmpty>>
  /\ ~result.ok
  /\ query.namespace = Str(<<"n">>)
  /\ Len(query.filters) > 0

\* C11: a setNamespace call that returns changes the namespace to its
\* argument and nothing else, a setDb call that returns changes the database
\* to its argument and nothing else, and a setNamespaceAndDb call that
\* returns changes these two fields to its arguments and nothing else; so
\* none of them changes table, filters, sortField, limit or data.
C11_SettersChangeOnlyTheirFields ==
  [][/\ (result'.method = "setNamespace" /\ result'.ok) =>
          query' = [query EXCEPT !.namespace = result'.args[1]]
     /\ (result'.method = "setDb" /\ result'.ok) =>
          query' = [query EXCEPT !.db_name = result'.args[1]]
     /\ (result'.method = "setNamespaceAndDb" /\ result'.ok) =>
          query' = [query EXCEPT !.namespace = result'.args[1],
                                 !.db_name = result'.args[2]]]_vars

\* C11 witness: setNamespace("m") has returned on a builder constructed with
\* the database "d" that holds a filter, a sort field, a limit and data
C11_Witness ==
  /\ result.method = "setNamespace"
  /\ result.ok
  /\ query.namespace = Str(<<"m">>)
  /\ query.db_name = Str(<<"d">>)
  /\ Len(query.filters) > 0
  /\ Truthy(query.sortField)
  /\ Truthy(query.limitCount)
  /\ Truthy(query.data)

\* the text that begins every statement of the operation, up to the table
StatementHead(operation) ==
  CASE operation = "SELECT" -> kSelectFrom
    [] operation = "CREATE" -> kCreate
    [] operation = "UPDATE" -> kUpdate
    [] OTHER -> kDeleteFrom

\* text names the table right after the head of the operation's statement:
\* the name is followed by a space or by the end of the statement
NamesTable(text, operation, table) ==
  LET head == StatementHead(operation) \o table IN
  /\ StartsWith(text, head)
  /\ Len(text) > Len(head) => text[Len(head) + 1] = " "

\* C12: the constructor called with an empty table name throws the
\* validation error of the table and otherwise stores the name given; no
\* call on the builder changes the table; every statement rendered names
\* the table of the builder right after the head of the statement.
C12_TableIsFixedAtConstruction ==
  /\ [](result.method = "constructor" =>
          IF result.args[1] = sEmpty
          THEN ~result.ok /\ result.err = ErrTable
          ELSE result.ok /\ query.table = result.args[1].s)
  /\ [][query'.table = query.table]_vars
  /\ [](\A operation \in Operations :
          Rendered(operation) =>
            NamesTable(result.query, operation, query.table))

\* C12 witness: after filter, sort, limit, setData and a change of namespace
\* a SELECT statement has been rendered on the table "any"
C12_Witness ==
  /\ Rendered("SELECT")
  /\ query.table = <<"a", "n", "y">>
  /\ Len(hist.filter) > 0
  /\ hist.sort # None
  /\ hist.limit # None
  /\ hist.data # None
  /\ hist.namespace = Str(<<"m">>)

\* the descriptor declared for the i-th field of the schema and its name
Declared(i) == schemaHist.entries[i][2]
DeclaredName(i) == schemaHist.entries[i][1]

\* the line of the i-th field reads DEFINE FIELD <name> ON TABLE <table>
\* TYPE <text>, then nothing or the reference to the table of the
\* descriptor, then the semicolon
HasTypeText(i, text) ==
  LET line == kDefineField \o DeclaredName(i) \o kOnTable \o schemaHist.table
                \o kType \o text
  IN schema.fields[i] \in
       {line \o kSemicolon,
        line \o kReferencesTable \o StringOf(Declared(i).refTable) \o kSemicolon}

\* C13: the type text of a field declared through the optional combinator
\* is option<X>, X being the type text the same descriptor renders without
\* the optional flag, also when X is an array<item> type or an object type.
C13_OptionalWrapsRenderedType ==
  \A i \in 1..Len(schemaHist.entries) :
    Truthy(Declared(i).optional) =>
      HasTypeText(i, kOptionOpen
                       \o FieldTypeText([Declared(i) EXCEPT !.optional = Undefined])
                       \o kClose)

\* C14: the line of a field ends with REFERENCES TABLE <refTable> when the
\* type of its descriptor is id and the descriptor carries a reference
\* table, and has no REFERENCES TABLE otherwise, whatever the descriptor
\* carries.
C14_ReferenceOnlyOnId ==
  \A i \in 1..Len(schemaHist.entries) :
    IF Declared(i).type = tId /\ IsSet(Declared(i).refTable)
    THEN EndsWith(schema.fields[i],
                  kReferencesTable \o Declared(i).refTable.s \o kSemicolon)
    ELSE ~Contains(schema.fields[i], kReferencesTable)

\* C15: the type text of a field is FLEXIBLE TYPE object exactly when the
\* type of its descriptor is object and its flexible flag is set; an object
\* without the flag renders object (option<object> when it is optional);
\* on a descriptor of another type the flag changes nothing: the line is
\* the line of the same descriptor without the flag.
C15_FlexibleOnlyOnObject ==
  \A i \in 1..Len(schemaHist.entries) :
    /\ HasTypeText(i, kFlexibleTypeObject)
         <=> (Declared(i).type = tObject /\ Truthy(Declared(i).flexible))
    /\ (Declared(i).type = tObject /\ ~Truthy(Declared(i).flexible)) =>
         HasTypeText(i, IF Truthy(Declared(i).optional)
                        THEN kOptionOpen \o tObject \o kClose
                        ELSE tObject)
    /\ Declared(i).type # tObject =>
         schema.fields[i] =
           FieldLine(schemaHist.table, DeclaredName(i),
                     [Declared(i) EXCEPT !.flexible = Undefined])

\* C15 witness: a schema whose field is a flexible object has been
\* generated and its text holds FLEXIBLE TYPE object
C15_Witness ==
  /\ schemaHist.method = "generate"
  /\ Len(schemaHist.entries) = 1
  /\ Declared(1) = fieldType_object(Bool(TRUE))
  /\ Contains(schemaHist.text, kType \o kFlexibleTypeObject \o kSemicolon)

\* the field names an index call was given: a string is the one name
ClaimNames(fields) == IF fields.t = "arr" THEN Elements(fields) ELSE <<fields>>

\* the index line of the claim for the call args = <<name, fields, unique>>
ClaimIndexLine(args) ==
  kDefineIndex \o args[1] \o kOnTable \o schemaHist.table \o kFields
    \o Join([i \in 1..Len(ClaimNames(args[2])) |-> ClaimNames(args[2])[i].s],
            kCommaSpace)
    \o (IF args[3] = Bool(TRUE) THEN kUnique ELSE <<>>) \o kSemicolon

\* C16: the builder holds one index line per index call, in call order, and
\* the line of the call index(name, fields, unique) is DEFINE INDEX <name>
\* ON TABLE <table> FIELDS <joined>, then UNIQUE exactly when unique was
\* given as true, then the semicolon; <joined> is the names given joined
\* with ", ", a name given as a string counting as the list of that name.
C16_IndexLines ==
  /\ Len(schema.indexes) = Len(schemaHist.index)
  /\ \A k \in 1..Len(schemaHist.index) :
       schema.indexes[k] = ClaimIndexLine(schemaHist.index[k])

\* the fields argument of an index call names no field
EmptyIndexField(fields) ==
  \/ fields.t = "str" /\ Len(fields.s) = 0
  \/ fields.t = "arr" /\ Len(fields.props) = 0

\* C17: an index call whose fields argument is the empty string or the
\* empty list throws an error and adds no index line.
C17_EmptyIndexFieldIsRefused ==
  [][(schemaHist'.method = "index" /\ EmptyIndexField(schemaHist'.args[2])) =>
       /\ ~schemaHist'.ok
       /\ schemaHist'.err # ErrNone
       /\ schema'.indexes = schema.indexes]_vars

\* the last call was generate()
Generated == schemaHist.method = "generate" /\ schemaHist.ok

\* the header for the table and the mode given to defineSchema, the mode
\* being SCHEMALESS when none was given
ClaimHeader ==
  kDefineTable \o schemaHist.table \o kSpace
    \o (IF schemaHist.type = Undefined THEN SCHEMALESS ELSE schemaHist.type.s)
    \o kSemicolon

\* the builder holds one field line per declared field in declaration
\* order and one index line per index call in call order
ClaimLineOrder ==
  /\ Len(schema.fields) = Len(schemaHist.entries)
  /\ \A i \in 1..Len(schemaHist.entries) :
       /\ StartsWith(schema.fields[i],
                     kDefineField \o DeclaredName(i) \o kOnTable
                       \o schemaHist.table \o kType)
       /\ EndsWith(schema.fields[i], kSemicolon)
  /\ Len(schema.indexes) = Len(schemaHist.index)
  /\ \A k \in 1..Len(schemaHist.index) :
       /\ StartsWith(schema.indexes[k],
                     kDefineIndex \o schemaHist.index[k][1] \o kOnTable
                       \o schemaHist.table \o kFields)
       /\ EndsWith(schema.indexes[k], kSemicolon)

\* an index call leaves table, mode and field lines as they were
IndexKeepsHeaderAndFields ==
  schemaHist'.method = "index" =>
    /\ schema'.table = schema.table
    /\ schema'.type = schema.type
    /\ schema'.fields = schema.fields

\* C18 as stated: the text generate() returns is the header, the field
\* lines in declaration order and the index lines in call order, joined by
\* newlines; an index call changes neither header nor field lines.
C18_LinesJoinedByNewlines ==
  /\ [](ClaimLineOrder /\
          (Generated =>
             schemaHist.text =
               Join(<<ClaimHeader>> \o schema.fields \o schema.indexes, kNewline)))
  /\ [][IndexKeepsHeaderAndFields]_vars

\* C18 amended: the text generate() returns is the header, a newline, the
\* field lines in declaration order joined by newlines, a newline, and the
\* index lines in call order joined by newlines (so the text ends with a
\* newline when there is no index line and has an empty second line when
\* there is no field line); an index call changes neither header nor field
\* lines.
C18_HeaderFieldsIndexes ==
  /\ [](ClaimLineOrder /\
          (Generated =>
             schemaHist.text =
               ClaimHeader \o kNewline \o Join(schema.fields, kNewline)
                 \o kNewline \o Join(schema.indexes, kNewline)))
  /\ [][IndexKeepsHeaderAndFields]_vars

\* C18 witness: a schema declared with the fields g and f, in this order,
\* and indexed by j and then i has been generated
C18_Witness ==
  /\ Generated
  /\ Len(schemaHist.entries) = 2
  /\ DeclaredName(1) = nameG
  /\ Len(schemaHist.index) = 2
  /\ schemaHist.index[1][1] = <<"j">>
  /\ schemaHist.index[2][1] = <<"i">>

\* C19: a generate() call leaves table, mode, field lines and index lines
\* of the builder as they were, and returns the text the generate() call
\* right before it returned.
C19_GenerateIsIdempotent ==
  [][schemaHist'.method = "generate" =>
       /\ schema' = schema
       /\ schemaHist.method = "generate" => schemaHist'.text = schemaHist.text]_vars

\* C19 witness: generate() has been called twice in a row on a builder
\* with field lines and index lines
C19_Witness ==
  /\ Generated
  /\ schemaHist.runs = MaxGenerates
  /\ Len(schema.fields) > 0
  /\ Len(schema.indexes) > 0

\* the token reads record(<identifier>) for some identifier of one
\* character or more
ClaimRecordToken(token) ==
  \E n \in 1..(Len(token) - Len(kRecord) - 2) :
    LET identifier == SubSeq(token, Len(kRecord) + 2, Len(kRecord) + 1 + n) IN
    /\ token = kRecord \o <<"(">> \o identifier \o <<")">>
    /\ \A i \in 1..n : identifier[i] \in IdentifierChars

\* the fields declared with a token that begins with record and is not
\* record(<identifier>)
ClaimMalformed ==
  {i \in 1..Len(schemaHist.entries) :
     /\ StartsWith(schemaHist.entries[i][2], kRecord)
     /\ ~ClaimRecordToken(schemaHist.entries[i][2])}

\* C20: defineSchema of the string-literal-typed builder throws when a
\* field is declared with a token that begins with record and is not
\* exactly record(<identifier>), and the error names such a field; it
\* returns when there is no such field.
C20_MalformedRecordIsRefused ==
  schemaHist.method = "defineSchema" =>
    IF ClaimMalformed = {}
    THEN schemaHist.ok
    ELSE /\ ~schemaHist.ok
         /\ \E i \in ClaimMalformed : schemaHist.named = DeclaredName(i)

\* C20 witness: a schema whose second field is declared record() and
\* whose first field is declared record(c) was refused, naming the second
C20_Witness ==
  /\ schemaHist.method = "defineSchema"
  /\ ~schemaHist.ok
  /\ Len(schemaHist.entries) = 2
  /\ schemaHist.entries[1][2] = <<"r", "e", "c", "o", "r", "d", "(", "c", ")">>
  /\ schemaHist.entries[2][2] = <<"r", "e", "c", "o", "r", "d", "(", ")">>
  /\ schemaHist.named = DeclaredName(2)

\* the last argument a mutator was successfully called with, undefined
\* when it never was
LastSet(v) == IF v = None THEN Undefined ELSE v

\* the builder holds what the calls that returned gave it: one filter per
\* filter call, the last sort field, limit and data, the namespace and the
\* database last supplied
HoldsWhatWasGiven ==
  /\ Len(query.filters) = Len(hist.filter)
  /\ query.sortField = LastSet(hist.sort)
  /\ query.limitCount = LastSet(hist.limit)
  /\ query.data = LastSet(hist.data)
  /\ query.namespace = hist.namespace
  /\ query.db_name = hist.db_name

\* C21: a buildQuery or getQueryPayload call, returning or throwing, leaves
\* the builder as it was, and the same call made right after it has the
\* same outcome; the builder always holds what the mutators gave it,
\* whatever renders were made or refused in between; a builder with
\* namespace, database and data renders each of the four operations.
C21_RendersAreReadOnly ==
  /\ [][result'.method \in {"buildQuery", "getQueryPayload"} =>
          /\ query' = query
          /\ (result.method = result'.method /\ result.args = result'.args) =>
               result' = result]_vars
  /\ [](Constructed =>
          /\ HoldsWhatWasGiven
          /\ (~NamespaceOrDbMissing(query) /\ Truthy(query.data)) =>
               \A operation \in Operations :
                 /\ buildQuery(query, operation).ok
                 /\ getQueryPayload(query, operation).ok)

\* C21 witness: a render was refused for lack of data; data was supplied
\* and CREATE now renders on a builder that holds every filter it was
\* given, a sort field and a limit
C21_Witness ==
  /\ hist.refused
  /\ Rendered("CREATE")
  /\ Len(query.filters) > 0
  /\ Len(query.filters) = Len(hist.filter)
  /\ Truthy(query.sortField)
  /\ Truthy(query.limitCount)

====
